---- MODULE Spec2Model ----
(***************************************************************************)
(* A model of nmltab.py: the superset, semantic diff, sequence prune and   *)
(* file pre-filter of Fortran namelist DocumentSets.                       *)
(*                                                                         *)
(* A Namelist group is a function from variable names to values, a         *)
(* Namelist (document) a function from group names to groups, and nmlall   *)
(* (the OrderedDict returned by nmldict) a sequence of records             *)
(* [fn |-> source identifier, nml |-> document, ord |-> the order in which *)
(* the document's groups and variables were inserted] in key order.        *)
(***************************************************************************)
EXTENDS Integers, Sequences, FiniteSets, TLC

\* ------------------------------------------------------------------ bounds
\* Largest number of sources in a DocumentSet.
MaxDocs == 3
\* Largest number of sources in a DocumentSet that is rendered.
MaxRenderDocs == 2
\* Largest number of sources in a DocumentSet that is pruned.
MaxPruneDocs == 4
\* Largest number of paths in the list passed to prunefilelist.
MaxPaths == 4
\* Largest number of paths in a list of existing namelist files.
MaxSources == 4
\* Largest number of files on the command line.
MaxFiles == 2
\* Largest number of sources in a DocumentSet that is rewritten.
MaxTidyDocs == 3

\* Group names, variable names and values of the documents tried.
Groups == {"g1", "g2"}
Vars == {"v1", "v2"}
Vals == {0, 1}
\* The keep tokens tried: none (the default ''), and a variable name.
KeepTokens == {"", "v1"}

VARIABLES
    nmlall,       \* the live DocumentSet
    nml0,         \* the DocumentSet as first passed in
    prev,         \* the DocumentSet before the last call
    keep,         \* the keep token of this run
    last,         \* the last call made: "", "diff", "superset"
    ncalls,       \* calls of nmldiff so far
    nmlsuperset,  \* the value returned by the last superset call
    st,           \* the string returned by the last strnmldict call
    rargs,        \* the arguments of the last strnmldict call
    pc,           \* "" between calls, "prune" inside nmlprune's loop,
                  \* "raise" once a call has raised an exception
    idx,          \* nmlprune's cursor
    ignore,       \* nmlprune's ignore argument
    files,        \* the file system: the content of each path, or NoFile
    fnames,       \* the list of paths passed to prunefilelist
    outfnames,    \* the list prunefilelist returned
    nmlfull,      \* nmlprune(nmldict(fnames)): the DocumentSet pruned without
                  \* the file pre-filter
    st0,          \* the string returned by the strnmldict call before the last
    rargs0,       \* the arguments of the strnmldict call before the last
    args,         \* the command line's options
    exitcode,     \* the exit code of the command line run, -1 before it ends
    tidyarg,      \* the colwidth tidy_overwrite was called with
    tidywidth,    \* tidy_overwrite's colwidth, None or a width
    disk,         \* what the file of each source holds: the text read
                  \* ("orig") or the Namelist as f90nml.write lays it out
                  \* ("tidy") with a column width
    tmp,          \* the '-tmp' file of each source: "none", "part" (partly
                  \* written) or "whole"
    warned        \* the warnings issued: <<source, '-tmp' path>> each

\* The variables of the command line.
cliVars == <<args, exitcode>>

\* The variables of tidy_overwrite.
tidyVars == <<tidyarg, tidywidth, disk, tmp, warned>>

\* The state of the runs that start from a list of paths, render twice or
\* rewrite the files.
runVars == <<nmlfull, st0, rargs0, cliVars, tidyVars>>

vars == <<nmlall, nml0, prev, keep, last, ncalls, nmlsuperset, st, rargs,
          pc, idx, ignore, files, fnames, outfnames, runVars>>

\* ------------------------------------------------------------ dictionaries
EmptyDict == [k \in {} |-> 0]

\* del d[k]
DictDel(d, k) == [x \in (DOMAIN d) \ {k} |-> d[x]]

\* d.update(e): the keys of e overwrite or are added
DictUpdate(d, e) ==
    [x \in (DOMAIN d) \cup (DOMAIN e) |-> IF x \in DOMAIN e THEN e[x] ELSE d[x]]

\* The documents the runs start from: &g1 is absent or holds any of the
\* variables with any values; &g2 is absent or holds v1 = 0.
GroupValues(g) ==
    IF g = "g1" THEN UNION {[vs -> Vals] : vs \in SUBSET Vars}
    ELSE {[v \in {"v1"} |-> 0]}

Documents ==
    UNION {{d \in [gs -> UNION {GroupValues(g) : g \in gs}] :
                \A g \in gs : d[g] \in GroupValues(g)} : gs \in SUBSET Groups}

FileName(i) == "f" \o ToString(i)

\* A set as a sequence, in the one order the loops below visit it.
RECURSIVE SetToSeq(_)
SetToSeq(S) ==
    IF S = {} THEN <<>>
    ELSE LET x == CHOOSE y \in S : TRUE IN <<x>> \o SetToSeq(S \ {x})

\* The order in which f90nml.read inserted the groups of document d and the
\* variables of each group, where nothing else is said: one fixed order.
DocOrder(d) ==
    [groups |-> SetToSeq(DOMAIN d),
     vars |-> [g \in DOMAIN d |-> SetToSeq(DOMAIN d[g])]]

\* for group in nmlall[nml] / for var in nmlall[nml][group]: the keys source e
\* holds, in insertion order (a deletion leaves the order of the others)
GroupKeys(e) == SelectSeq(e.ord.groups, LAMBDA g : g \in DOMAIN e.nml)

VarKeys(e, group) ==
    SelectSeq(e.ord.vars[group], LAMBDA v : v \in DOMAIN e.nml[group])

\* The key order of d.update(e): the keys of d as they were, then the new keys
\* of e in e's order
KeysUpdate(dkeys, ekeys) ==
    dkeys \o SelectSeq(ekeys, LAMBDA k : \A j \in 1..Len(dkeys) : dkeys[j] # k)

\* ---------------------------------------------------------------- superset
\* While superset runs, nmlsuperset[group] is either the very group object of
\* a source (ref = its position in nmlall: what dict.update of line 104 stores)
\* or an object of its own (ref = 0, its content in val).  A write through a
\* reference lands in the source's group.  w = [all |-> nmlall, ss |-> nmlsuperset].
GroupRef(i) == [ref |-> i, val |-> EmptyDict]

Deref(all, group, e) == IF e.ref = 0 THEN e.val ELSE all[e.ref].nml[group]

\* lines 103-104: nmlsuperset.update(nmlall[nml]) for every source in turn
RECURSIVE ssGroups(_, _, _)
ssGroups(all, i, ss) ==
    IF i > Len(all) THEN ss
    ELSE ssGroups(all, i + 1,
                  DictUpdate(ss, [g \in DOMAIN all[i].nml |-> GroupRef(i)]))

\* GroupCopy that leaves nmlsuperset[group] the source's own group object.
GroupCopyNone(w, group) == w

\* line 108: nmlsuperset[group] = nmlsuperset[group].copy()
GroupCopy(w, group) ==
    [w EXCEPT !.ss[group] = [ref |-> 0, val |-> Deref(w.all, group, @)]]

\* GroupUpdate with a variable's value set once and then left alone.
GroupUpdateFirstWins(w, group, i) ==
    LET src == w.all[i].nml[group]
        e == w.ss[group]
    IN  IF e.ref = 0
        THEN [w EXCEPT !.ss[group].val = DictUpdate(src, @)]
        ELSE [w EXCEPT !.all[e.ref].nml[group] = DictUpdate(src, @)]

\* line 114: nmlsuperset[group].update(nmlall[nml][group])
GroupUpdate(w, group, i) ==
    LET src == w.all[i].nml[group]
        e == w.ss[group]
    IN  IF e.ref = 0
        THEN [w EXCEPT !.ss[group].val = DictUpdate(@, src)]
        ELSE [w EXCEPT !.all[e.ref].nml[group] = DictUpdate(@, src)]

\* lines 112-114
RECURSIVE ssVars(_, _, _)
ssVars(w, group, i) ==
    IF i > Len(w.all) THEN w
    ELSE ssVars(IF group \in DOMAIN w.all[i].nml
                THEN GroupUpdate(w, group, i) ELSE w,
                group, i + 1)

\* lines 106-114
RECURSIVE ssLoop(_, _)
ssLoop(w, groups) ==
    IF groups = <<>> THEN w
    ELSE ssLoop(ssVars(GroupCopy(w, Head(groups)), Head(groups), 1),
                Tail(groups))

\* superset(nmlall): [all |-> nmlall as the call leaves it,
\*                    ss  |-> the dict returned]
superset(all) ==
    LET ss0 == ssGroups(all, 1, EmptyDict)
        w == ssLoop([all |-> all, ss |-> ss0], SetToSeq(DOMAIN ss0))
    IN  [all |-> w.all,
         ss |-> [g \in DOMAIN w.ss |-> Deref(w.all, g, w.ss[g])]]

\* lines 103-104: the key order of nmlsuperset, from source i on
RECURSIVE ssGroupKeys(_, _, _)
ssGroupKeys(all, i, keys) ==
    IF i > Len(all) THEN keys
    ELSE ssGroupKeys(all, i + 1, KeysUpdate(keys, GroupKeys(all[i])))

\* lines 112-114: the key order of nmlsuperset[group], from source i on
RECURSIVE ssVarKeys(_, _, _, _)
ssVarKeys(all, group, i, keys) ==
    IF i > Len(all) THEN keys
    ELSE ssVarKeys(all, group, i + 1,
                   IF group \in DOMAIN all[i].nml
                   THEN KeysUpdate(keys, VarKeys(all[i], group)) ELSE keys)

\* The insertion order of the dict superset(nmlall) returns: the groups in
\* order of first occurrence; in a group the variables of the copy line 108
\* takes (of the group of the last source that holds it), then the others in
\* order of first occurrence.
ssKeys(all) ==
    LET groups == ssGroupKeys(all, 1, <<>>)
        lastwith(g) == CHOOSE i \in 1..Len(all) :
                          /\ g \in DOMAIN all[i].nml
                          /\ \A j \in (i + 1)..Len(all) : g \notin DOMAIN all[j].nml
    IN  [groups |-> groups,
         vars |-> [g \in {groups[k] : k \in 1..Len(groups)} |->
                     ssVarKeys(all, g, 1, VarKeys(all[lastwith(g)], g))]]

\* ----------------------------------------------------------------- nmldiff
\* lines 159-160 and 166-167: present in every source
GroupInAll(all, group) == \A i \in 1..Len(all) : group \in DOMAIN all[i].nml

VarInAll(all, group, var) ==
    \A i \in 1..Len(all) : var \in DOMAIN all[i].nml[group]

\* lines 169-174: every source's value equals the superset's
ValuesMatch(all, ss, group, var) ==
    \A i \in 1..Len(all) : all[i].nml[group][var] = ss[group][var]

\* DelVar that stops after the first source.
DelVarFirstOnly(all, group, var) ==
    [i \in 1..Len(all) |->
        IF i = 1 THEN [all[i] EXCEPT !.nml[group] = DictDel(@, var)] ELSE all[i]]

\* lines 179-181: del nmlall[nml][group][var] for every source
DelVar(all, group, var) ==
    [i \in 1..Len(all) |->
        [all[i] EXCEPT !.nml[group] = DictDel(@, var)]]

\* lines 194-195: del nmlall[nml][group] for every source
DelGroup(all, group) ==
    [i \in 1..Len(all) |-> [all[i] EXCEPT !.nml = DictDel(@, group)]]

\* lines 162-181, one variable of the superset's group.
\* d = [all |-> nmlall, varkept |-> BOOLEAN]
diffVar(d, ss, group, var, kp) ==
    IF VarInAll(d.all, group, var) /\ ValuesMatch(d.all, ss, group, var)
    THEN IF var = kp
         THEN [d EXCEPT !.varkept = TRUE]
         ELSE [d EXCEPT !.all = DelVar(@, group, var)]
    ELSE d

RECURSIVE diffVars(_, _, _, _, _)
diffVars(d, ss, group, varseq, kp) ==
    IF varseq = <<>> THEN d
    ELSE diffVars(diffVar(d, ss, group, Head(varseq), kp),
                  ss, group, Tail(varseq), kp)

\* OnlyVarKept that takes any kept variable as the only one left.
OnlyVarKeptAlways(all, group, kp, i, acc) == TRUE

\* lines 183-187: the loop that settles onlyvarkept
RECURSIVE OnlyVarKept(_, _, _, _, _)
OnlyVarKept(all, group, kp, i, acc) ==
    IF i > Len(all) THEN acc
    ELSE LET g == all[i].nml[group]
             a1 == acc /\ Cardinality(DOMAIN g) < 2
             a2 == IF a1 /\ Cardinality(DOMAIN g) = 1
                   THEN (CHOOSE v \in DOMAIN g : TRUE) = kp
                   ELSE a1
         IN  OnlyVarKept(all, group, kp, i + 1, a2)

\* diffPresentGroup that settles deletegroup before the variables are removed.
diffPresentGroupEarly(all, ss, group, kp) ==
    LET d == diffVars([all |-> all, varkept |-> FALSE], ss, group,
                      SetToSeq(DOMAIN ss[group]), kp)
        deletegroup ==
            IF d.varkept /\ OnlyVarKept(all, group, kp, 1, TRUE) THEN TRUE
            ELSE \A i \in 1..Len(all) : DOMAIN all[i].nml[group] = {}
    IN  IF deletegroup THEN DelGroup(d.all, group) ELSE d.all

\* diffPresentGroup without lines 182-189: a group is deleted only when empty.
diffPresentGroupNoOnly(all, ss, group, kp) ==
    LET d == diffVars([all |-> all, varkept |-> FALSE], ss, group,
                      SetToSeq(DOMAIN ss[group]), kp)
        deletegroup == \A i \in 1..Len(d.all) : DOMAIN d.all[i].nml[group] = {}
    IN  IF deletegroup THEN DelGroup(d.all, group) ELSE d.all

\* lines 162-195: a group that every source holds
diffPresentGroup(all, ss, group, kp) ==
    LET d == diffVars([all |-> all, varkept |-> FALSE], ss, group,
                      SetToSeq(DOMAIN ss[group]), kp)
        onlyvarkept == d.varkept /\ OnlyVarKept(d.all, group, kp, 1, TRUE)
        deletegroup ==
            IF onlyvarkept THEN TRUE
            ELSE \A i \in 1..Len(d.all) : DOMAIN d.all[i].nml[group] = {}
    IN  IF deletegroup THEN DelGroup(d.all, group) ELSE d.all

\* diffGroup that examines a group among the sources that hold it.
diffGroupSkipMissing(all, ss, group, kp) ==
    LET has == SelectSeq(all, LAMBDA e : group \in DOMAIN e.nml)
        pos(i) == Cardinality({j \in 1..i : group \in DOMAIN all[j].nml})
        r == diffPresentGroup(has, ss, group, kp)
    IN  [i \in 1..Len(all) |->
            IF group \in DOMAIN all[i].nml THEN r[pos(i)] ELSE all[i]]

\* lines 156-195, one group of the superset
diffGroup(all, ss, group, kp) ==
    IF GroupInAll(all, group)
    THEN diffPresentGroup(all, ss, group, kp)
    ELSE all

RECURSIVE diffGroups(_, _, _, _)
diffGroups(all, ss, groupseq, kp) ==
    IF groupseq = <<>> THEN all
    ELSE diffGroups(diffGroup(all, ss, Head(groupseq), kp),
                    ss, Tail(groupseq), kp)

\* nmldiff(nmlall, keep): nmlall as the call leaves it (it is also returned)
nmldiff(all, kp) ==
    LET s == superset(all)
    IN  diffGroups(s.all, s.ss, SetToSeq(DOMAIN s.ss), kp)

\* -------------------------------------------------------------- strnmldict
\* Characters in code-point order, for sorted() and str.lower().
Chars == " %&*-/0123456789:ABCDEFGHIJKLMNOPQRSTUVWXYZ\\_abcdefghijklmnopqrstuvwxyz|"
UpperChars == "ABCDEFGHIJKLMNOPQRSTUVWXYZ"
LowerChars == "abcdefghijklmnopqrstuvwxyz"

Ord(c) == CHOOSE i \in 1..Len(Chars) : SubSeq(Chars, i, i) = c

StrTail(str) == SubSeq(str, 2, Len(str))

\* a < b for strings, as sorted() compares them
RECURSIVE StrLess(_, _)
StrLess(a, b) ==
    IF b = "" THEN FALSE
    ELSE IF a = "" THEN TRUE
    ELSE IF Head(a) = Head(b) THEN StrLess(StrTail(a), StrTail(b))
    ELSE Ord(Head(a)) < Ord(Head(b))

\* The strings of S in ascending order.
RECURSIVE Ascending(_)
Ascending(S) ==
    IF S = {} THEN <<>>
    ELSE LET x == CHOOSE y \in S : \A z \in S \ {y} : StrLess(y, z)
         IN  <<x>> \o Ascending(S \ {x})

\* sorted that leaves the keys in the order the dict yields them.
sortedNot(keys) == keys

\* sorted(d): the keys of a dict, which it yields in insertion order, sorted
sorted(keys) == Ascending({keys[k] : k \in 1..Len(keys)})

\* line 388: fmt.lower()
RECURSIVE lower(_)
lower(str) ==
    IF str = "" THEN ""
    ELSE LET c == Head(str)
             up == {i \in 1..Len(UpperChars) : SubSeq(UpperChars, i, i) = c}
         IN  (IF up = {} THEN c
              ELSE LET i == CHOOSE j \in up : TRUE IN SubSeq(LowerChars, i, i))
             \o lower(StrTail(str))

\* s * n
RECURSIVE Times(_, _)
Times(str, n) == IF n <= 0 THEN "" ELSE str \o Times(str, n - 1)

\* s.ljust(w)
ljust(str, w) == str \o Times(" ", w - Len(str))

\* s.startswith(prefix)
startswith(str, prefix) ==
    Len(str) >= Len(prefix) /\ SubSeq(str, 1, Len(prefix)) = prefix

\* repr(value), the values being integers
repr(v) == ToString(v)

\* lines 369-370: latexstr
RECURSIVE latexstr(_)
latexstr(item) ==
    IF item = "" THEN ""
    ELSE LET c == Head(item)
         IN  (IF c = "_" THEN "\\_"
              ELSE IF c = "/" THEN "\\slash "
              ELSE IF c = "%" THEN "\\%"
              ELSE c) \o latexstr(StrTail(item))

\* lines 372-383: latexrepr, the values being integers
latexrepr(item) == repr(item)

\* max(S, default=0)
MaxOf(S) == IF S = {} THEN 0 ELSE CHOOSE x \in S : \A y \in S : y <= x

\* The concatenation of a sequence of strings.
RECURSIVE Join(_)
Join(strs) == IF strs = <<>> THEN "" ELSE Head(strs) \o Join(Tail(strs))

\* for group in sorted(nmlss): for var in sorted(nmlss[group]): the pairs in
\* the order visited
RECURSIVE GroupVarPairs(_, _)
GroupVarPairs(sskeys, groupseq) ==
    IF groupseq = <<>> THEN <<>>
    ELSE LET g == Head(groupseq)
             vs == sorted(sskeys.vars[g])
         IN  [k \in 1..Len(vs) |-> <<g, vs[k]>>]
             \o GroupVarPairs(sskeys, Tail(groupseq))

\* sskeys is the insertion order of nmlss, as ssKeys gives it.
SortedPairs(sskeys) == GroupVarPairs(sskeys, sorted(sskeys.groups))

\* (group in hide) and (var in hide[group])
Hidden(hide, group, var) == group \in DOMAIN hide /\ var \in hide[group]

\* if group in nmlall[fn]: if var in nmlall[fn][group]: the value's text
ValueStr(all, i, group, var) ==
    IF group \in DOMAIN all[i].nml /\ var \in DOMAIN all[i].nml[group]
    THEN repr(all[i].nml[group][var])
    ELSE ""

\* DiffOfCopy without the call of nmldiff.
DiffOfCopyNone(all) == [live |-> all, diffed |-> all]

\* line 390: nmldiff(copy.deepcopy(nmlall)): the object passed in as the call
\* leaves it (live), and the diffed copy
DiffOfCopy(all) == [live |-> all, diffed |-> nmldiff(all, "")]

\* lines 400-417: markdown
strMarkdown(all, nmlss, sskeys, colwidth) ==
    IF DOMAIN nmlss = {} THEN ""
    ELSE LET pairs == SortedPairs(sskeys)
             head == "| " \o ljust("File", colwidth) \o " | "
                     \o Join([k \in 1..Len(pairs) |->
                                "&" \o pairs[k][1] \o "<br>" \o pairs[k][2] \o " | "])
             rule == "\n|-" \o Times("-", colwidth) \o ":|" \o Times("--:|", Len(pairs))
             row(i) == "\n| " \o all[i].fn \o " | "
                       \o Join([k \in 1..Len(pairs) |->
                                  ValueStr(all, i, pairs[k][1], pairs[k][2])
                                  \o " | "])
         IN  head \o rule \o Join([i \in 1..Len(all) |-> row(i)]) \o "\n"

\* lines 543-569: text and text-tight
strText(all, nmlss, sskeys, nmldss, fmt, hide) ==
    LET gwidth == IF fmt = "text"
                  THEN MaxOf({Len(g) : g \in DOMAIN nmlss}) ELSE 0
        vwidth == IF fmt = "text"
                  THEN MaxOf({Len(v) : v \in UNION {DOMAIN nmlss[g] : g \in DOMAIN nmlss}})
                  ELSE 0
        dwidth == IF fmt = "text"
                  THEN MaxOf(UNION {UNION {{Len(repr(all[i].nml[g][v])) :
                                               v \in DOMAIN all[i].nml[g]} :
                                           g \in DOMAIN all[i].nml} :
                                    i \in 1..Len(all)})
                  ELSE 0
        pairs == SortedPairs(sskeys)
        line(g, v, i) ==
            (IF g \in DOMAIN nmldss /\ v \in DOMAIN nmldss[g] THEN "* " ELSE "  ")
            \o "&" \o ljust(g, gwidth) \o "  " \o ljust(v, vwidth) \o "  "
            \o ljust(ValueStr(all, i, g, v), dwidth) \o "  " \o all[i].fn \o "\n"
        block(g, v) ==
            IF Hidden(hide, g, v) THEN ""
            ELSE Join([i \in 1..Len(all) |-> line(g, v, i)])
    IN  Join([k \in 1..Len(pairs) |-> block(pairs[k][1], pairs[k][2])])

\* lines 570-581: the standard string output
strPlain(all, nmlss, sskeys, colwidth, hide) ==
    LET pairs == SortedPairs(sskeys)
        block(g, v) ==
            IF Hidden(hide, g, v) THEN ""
            ELSE Times(" ", colwidth + 2) \o "&" \o g \o "\n"
                 \o Times(" ", colwidth + 2) \o " " \o v \o "\n"
                 \o Join([i \in 1..Len(all) |->
                            ljust(all[i].fn, colwidth) \o " : "
                            \o ValueStr(all, i, g, v) \o "\n"])
    IN  Join([k \in 1..Len(pairs) |-> block(pairs[k][1], pairs[k][2])])

\* The literal text of lines 421-440, 442-480 and 536-542, shortened to its
\* first line.
LatexComment == "\n% Latex tabulation of Fortran namelist, auto-generated by nmltab.py\n\n"
LatexDocument == "% generated by https://github.com/aekiss/nmltab\n\\begin{document}\n\n"
LatexDocumentEnd == "\n\\clearpage\n\\printindex\n\\end{document}\n"

\* lines 418-542: latex and latex-complete
strLatex(all, nmlss, sskeys, nmldss, fmt, masterswitch, hide, heading, url) ==
    IF DOMAIN nmlss = {} THEN ""
    ELSE
    LET pre ==
            IF fmt = "latex" THEN LatexComment
            ELSE IF fmt = "latex-complete"
            THEN LatexDocument \o heading
                 \o (IF url = ""
                     THEN "\\newcommand{\\nmllink}[2]{#1\\index{#1}}"
                     ELSE "Variables are weblinks to source code searches.\n"
                          \o "\\newcommand{\\nmllink}[2]{\\href{" \o url
                          \o "#2}{#1}\\index{#1}}")
                 \o "\n"
            ELSE ""
        cols == Join([i \in 1..Len(all) |->
                        "\t & \t\\textbf{" \o latexstr(all[i].fn) \o "}"])
        head ==
            "\\newcolumntype{R}{>{\\raggedleft\\arraybackslash}b{\\nmllen}}\n"
            \o "\\begin{tabularx}{\\linewidth}{X" \o Times("R", Len(all)) \o "}\n"
            \o "\\hline\n\\hiderowcolors\n"
            \o "\\textbf{Group\\quad\\hfill Variable}" \o cols
            \o " \\\\\n\\showrowcolors\n\\hline\\endfirsthead\n"
            \o "\\hline\n\\hiderowcolors\n"
            \o "\\textbf{Group (continued)\\quad\\hfill Variable}" \o cols
            \o " \\\\\n\\showrowcolors\n\\hline\\endhead\n"
        cell(i, g, v) ==
            "\t & \t"
            \o (IF g \in DOMAIN all[i].nml /\ v \in DOMAIN all[i].nml[g]
                THEN LET st1 == latexrepr(all[i].nml[g][v])
                     IN  IF /\ masterswitch \in DOMAIN all[i].nml[g]
                            /\ all[i].nml[g][masterswitch] = 0
                            /\ v # masterswitch
                         THEN "\\ignored{" \o st1 \o "}"
                         ELSE st1
                ELSE "")
        row(g, v, firstvar) ==
            LET gr == IF firstvar
                      THEN "\\&\\nmllink{" \o latexstr(g) \o "}{" \o g \o "}"
                      ELSE ""
                link == "\\nmllink{" \o latexstr(v) \o "}{" \o v \o "}"
            IN  gr \o " \\hfill "
                \o (IF g \in DOMAIN nmldss /\ v \in DOMAIN nmldss[g]
                    THEN "\\nmldiffer{" \o link \o "}"
                    ELSE link)
                \o Join([i \in 1..Len(all) |-> cell(i, g, v)])
                \o " \\\\\n"
        block(g) ==
            LET shown == SelectSeq(sorted(sskeys.vars[g]),
                                   LAMBDA v : ~Hidden(hide, g, v))
            IN  Join([k \in 1..Len(shown) |-> row(g, shown[k], k = 1)])
                \o (IF shown # <<>> THEN "\\hline\n" ELSE "")
        groupseq == sorted(sskeys.groups)
    IN  pre \o head \o Join([k \in 1..Len(groupseq) |-> block(groupseq[k])])
        \o "\\end{tabularx}\n"
        \o (IF fmt = "latex-complete" THEN LatexDocumentEnd ELSE "")

\* strnmldict(nmlall, fmt, masterswitch, hide, heading, url):
\* [all |-> nmlall as the call leaves it, st |-> the string returned]
strnmldict(all, fmt0, masterswitch, hide, heading, url) ==
    LET fmt == lower(fmt0)
        s1 == superset(all)
        nmlss == s1.ss
        sskeys == ssKeys(s1.all)
        c == DiffOfCopy(s1.all)
        nmldss == superset(c.diffed).ss
        colwidth == MaxOf({Len(c.live[i].fn) : i \in 1..Len(c.live)})
    IN  [all |-> c.live,
         st |-> IF fmt \in {"md", "markdown"}
                THEN strMarkdown(c.live, nmlss, sskeys, colwidth)
                ELSE IF startswith(fmt, "latex")
                THEN strLatex(c.live, nmlss, sskeys, nmldss, fmt, masterswitch,
                              hide, heading, url)
                ELSE IF startswith(fmt, "text")
                THEN strText(c.live, nmlss, sskeys, nmldss, fmt, hide)
                ELSE strPlain(c.live, nmlss, sskeys, colwidth, hide)]

\* ---------------------------------------------------------------- nmlprune
\* The ignore arguments tried: the default {}, and one variable of &g1.
Ignores == {EmptyDict, [g \in {"g1"} |-> {"v2"}]}

\* The documents nmlprune is tried on: &g1 absent, or holding v1 = 0 or not
\* and v2 with either value or not.
PruneDocuments ==
    {d \in Documents :
        /\ "g2" \notin DOMAIN d
        /\ \A g \in DOMAIN d : "v1" \in DOMAIN d[g] => d[g]["v1"] = 0}

\* lines 268-269: the (deep-copied) items idx and idx+1 of nmlall, fewer if
\* nmlall ends before
PrunePair(all, i) ==
    SubSeq(all, i + 1, IF i + 2 <= Len(all) THEN i + 2 ELSE Len(all))

\* StripIgnored that deletes nothing.
StripNothing(pair, ig) == pair

\* lines 270-275: del pair[fn][group][var] for the variables ignore lists
StripIgnored(pair, ig) ==
    [k \in 1..Len(pair) |->
        [pair[k] EXCEPT !.nml =
            [g \in DOMAIN @ |->
                IF g \in DOMAIN ig
                THEN [v \in (DOMAIN @[g]) \ ig[g] |-> @[g][v]]
                ELSE @[g]]]]

\* line 278: del nmlall[key]
DelSource(all, key) == SelectSeq(all, LAMBDA e : e.fn # key)

\* pruneStep that moves the cursor on after every comparison.
pruneStepAdvance(all, i, ig) ==
    LET pair == nmldiff(StripIgnored(PrunePair(all, i), ig), "")
    IN  IF \A k \in 1..Len(pair) : DOMAIN pair[k].nml = {}
        THEN [raised |-> FALSE, all |-> DelSource(all, pair[2].fn), idx |-> i + 1]
        ELSE [raised |-> FALSE, all |-> all, idx |-> i + 1]

\* lines 268-280: the pair is copied, stripped and diffed; if nothing is left
\* of it the second source is deleted from nmlall, otherwise idx moves on.
\* max() of no lengths (line 277) and the second key of a shorter pair
\* (line 278) raise.
pruneStep(all, i, ig) ==
    LET pair == nmldiff(StripIgnored(PrunePair(all, i), ig), "")
    IN  IF Len(pair) = 0
        THEN [raised |-> TRUE, all |-> all, idx |-> i]
        ELSE IF \A k \in 1..Len(pair) : DOMAIN pair[k].nml = {}
        THEN IF Len(pair) < 2
             THEN [raised |-> TRUE, all |-> all, idx |-> i]
             ELSE [raised |-> FALSE, all |-> DelSource(all, pair[2].fn), idx |-> i]
        ELSE [raised |-> FALSE, all |-> all, idx |-> i + 1]

\* lines 266-282: the loop, from cursor i on
RECURSIVE pruneLoop(_, _, _)
pruneLoop(all, i, ig) ==
    LET r == pruneStep(all, i, ig)
    IN  IF r.raised THEN [raised |-> TRUE, all |-> r.all]
        ELSE IF r.idx > Len(r.all) - 2 THEN [raised |-> FALSE, all |-> r.all]
        ELSE pruneLoop(r.all, r.idx, ig)

\* nmlprune(nmlall, ignore), lines 264-283: nmlall as the call leaves it
nmlprune(all, ig) ==
    IF Len(all) > 1 THEN pruneLoop(all, 0, ig)
    ELSE [raised |-> FALSE, all |-> all]

\* ----------------------------------------------------------- prunefilelist
\* The paths and file contents tried; NoFile is a path that is no file.
Paths == {"p1", "p2", "p3", "p4"}
Contents == {"a", "b"}
NoFile == "-"

\* os.path.isfile(fn)
isfile(fs, fn) == fs[fn] # NoFile

\* filecmp.cmp(f1, f2, shallow=False) of two files: byte-identical content
filecmp(fs, f1, f2) == fs[f1] = fs[f2]

\* pflLoop that compares every file with the first one kept.
RECURSIVE pflLoopFirst(_, _, _)
pflLoopFirst(fs, rest, out) ==
    IF rest = <<>> THEN out
    ELSE pflLoopFirst(fs, Tail(rest),
                      IF ~filecmp(fs, out[1], Head(rest))
                      THEN Append(out, Head(rest)) ELSE out)

\* lines 226-228
RECURSIVE pflLoop(_, _, _)
pflLoop(fs, rest, out) ==
    IF rest = <<>> THEN out
    ELSE pflLoop(fs, Tail(rest),
                 IF ~filecmp(fs, out[Len(out)], Head(rest))
                 THEN Append(out, Head(rest)) ELSE out)

\* prunefilelist(fnames), lines 220-229
prunefilelist(fs, names) ==
    LET fntmp == SelectSeq(names, LAMBDA fn : isfile(fs, fn))
    IN  IF Len(fntmp) <= 1 THEN fntmp
        ELSE pflLoop(fs, Tail(fntmp), <<Head(fntmp)>>)

\* ----------------------------------------------------------------- nmldict
\* The namelist texts the files of a run may hold, beside Contents.
Texts == Contents \cup {"aa", "c", "k", "g", "e"}

\* f90nml.read(path), by the text of the file: for every group its instances
\* in order of occurrence (a list when the group occurs more than once).
\*   a:  &g1 v1=0 v2=0 /        aa: &g1 v1=0 v2=0 /  &g1 v1=1 /
\*   c:  &g1 v1=0 v2=1 /        b:  &g1 v1=1 v2=0 /
\*   k:  &g1 v1=0 /             g:  &g1 /            e: no namelist data
f90read(text) ==
    CASE text = "a" -> [g \in {"g1"} |-> <<[v \in Vars |-> 0]>>]
      [] text = "aa" -> [g \in {"g1"} |-> <<[v \in Vars |-> 0], [v \in {"v1"} |-> 1]>>]
      [] text = "c" -> [g \in {"g1"} |-> <<[v \in Vars |-> IF v = "v2" THEN 1 ELSE 0]>>]
      [] text = "b" -> [g \in {"g1"} |-> <<[v \in Vars |-> IF v = "v1" THEN 1 ELSE 0]>>]
      [] text = "k" -> [g \in {"g1"} |-> <<[v \in {"v1"} |-> 0]>>]
      [] text = "g" -> [g \in {"g1"} |-> <<EmptyDict>>]
      [] text = "e" -> EmptyDict

\* lines 57-58: nmlall[nml] = f90nml.read(nml) for every path in turn; a new
\* key goes last, a repeated key keeps its place
RECURSIVE nmldictRead(_, _, _)
nmldictRead(fs, names, all) ==
    IF names = <<>> THEN all
    ELSE LET nml == Head(names)
             doc == [fn |-> nml, nml |-> f90read(fs[nml])]
             at == {k \in 1..Len(all) : all[k].fn = nml}
         IN  nmldictRead(fs, Tail(names),
                         IF at = {} THEN Append(all, doc)
                         ELSE [k \in 1..Len(all) |->
                                 IF k \in at THEN doc ELSE all[k]])

\* lines 61-75: of a group that occurs more than once the first instance is
\* used (a group that occurs once is its only instance)
FirstInstance(raw) == [g \in DOMAIN raw |-> raw[g][1]]

\* nmldict(nmlfnames), lines 53-76
nmldict(fs, names) ==
    LET all == nmldictRead(fs, names, <<>>)
    IN  [k \in 1..Len(all) |->
            [fn |-> all[k].fn, nml |-> FirstInstance(all[k].nml),
             ord |-> DocOrder(FirstInstance(all[k].nml))]]

\* ---------------------------------------------------------- tidy_overwrite
\* colwidth=None (line 286), a value that is no width.
None == -1

\* lines 309-310: the length of the longest variable name of a Namelist
AutoWidth(doc) ==
    MaxOf({MaxOf({Len(v) : v \in DOMAIN doc[g]}) : g \in DOMAIN doc})

\* What f90nml.write and os.replace can do for one source: both succeed
\* ("ok"), f90nml.write raises leaving a part of the '-tmp' file ("write"),
\* os.replace raises leaving the '-tmp' file and the original ("replace").
Outcomes == {"ok", "write", "replace"}

\* tidyStep with the exception of f90nml.write or os.replace not caught.
tidyStepNoCatch(doc, cw, outcome) ==
    IF DOMAIN doc = {}
    THEN [raised |-> FALSE, colwidth |-> cw, written |-> FALSE, tmp |-> "none",
          warn |-> FALSE]
    ELSE LET w == IF cw = None THEN AutoWidth(doc) ELSE cw
         IN  IF outcome = "ok"
             THEN [raised |-> FALSE, colwidth |-> w, written |-> TRUE,
                   tmp |-> "none", warn |-> FALSE]
             ELSE [raised |-> TRUE, colwidth |-> w, written |-> FALSE,
                   tmp |-> IF outcome = "write" THEN "part" ELSE "whole",
                   warn |-> FALSE]

\* lines 307-318, one source: [colwidth |-> colwidth after it, written |->
\* whether the file was replaced by the Namelist laid out at that width,
\* tmp |-> the '-tmp' file left, warn |-> whether the warning was issued,
\* raised |-> whether an exception leaves the loop]
tidyStep(doc, cw, outcome) ==
    IF DOMAIN doc = {}
    THEN [raised |-> FALSE, colwidth |-> cw, written |-> FALSE, tmp |-> "none",
          warn |-> FALSE]
    ELSE LET w == IF cw = None THEN AutoWidth(doc) ELSE cw
         IN  IF outcome = "ok"
             THEN [raised |-> FALSE, colwidth |-> w, written |-> TRUE,
                   tmp |-> "none", warn |-> FALSE]
             ELSE [raised |-> FALSE, colwidth |-> w, written |-> FALSE,
                   tmp |-> IF outcome = "write" THEN "part" ELSE "whole",
                   warn |-> TRUE]

\* ---------------------------------------------------------------- __main__
\* lines 707-711: the variables --ignore_counters names (here v2 of &g1), if
\* --prune is given too
Ignored(a) ==
    IF a.prune /\ a.ignore THEN [g \in {"g1"} |-> {"v2"}] ELSE EmptyDict

\* ExitCode without the test of line 724.
ExitCodeDiffOnly(diff, nmldss) == IF diff THEN 1 ELSE 0

\* lines 724-725 and 747-750: the argument of sys.exit
ExitCode(diff, nmldss) ==
    IF DOMAIN nmldss = {} THEN 0
    ELSE IF diff THEN 1 ELSE 0

\* lines 707-750 with tidy off and a format other than latex-complete:
\* [loaded |-> the DocumentSet nmldict returned, all |-> nmld at exit,
\*  st |-> the text printed, exitcode |-> the argument of sys.exit]
main(fs, names, a) ==
    LET ignored == Ignored(a)
        loaded == IF a.prune THEN nmldict(fs, prunefilelist(fs, names))
                  ELSE nmldict(fs, names)
        diffed == IF a.diff THEN nmldiff(loaded, a.keep) ELSE loaded
        pruned == IF a.prune THEN nmlprune(diffed, ignored).all ELSE diffed
        s == superset(pruned)
        r == strnmldict(s.all, a.fmt, "use_this_module", ignored, "", "")
    IN  IF DOMAIN s.ss = {}
        THEN [loaded |-> loaded, all |-> s.all, st |-> "",
              exitcode |-> ExitCode(a.diff, s.ss)]
        ELSE [loaded |-> loaded, all |-> r.all, st |-> r.st,
              exitcode |-> ExitCode(a.diff, s.ss)]

\* ----------------------------------------------------------------- actions
\* The arguments strnmldict is tried with: every format name, one in upper
\* case and one that is no format ('str', the command line's default), with
\* the other arguments at their defaults; and the plain, text and latex
\* formats also with hide naming a variable (and, for latex, which alone reads
\* them, masterswitch, heading and url set).
Formats ==
    {"", "str", "md", "markdown", "latex", "latex-complete", "text",
     "text-tight", "TEXT"}
Hides == {EmptyDict, [g \in {"g1"} |-> {"v2"}]}
RenderArgs ==
    {[fmt |-> f, masterswitch |-> "", hide |-> EmptyDict, heading |-> "",
      url |-> ""] : f \in Formats}
    \cup {[fmt |-> f, masterswitch |-> "", hide |-> h, heading |-> "",
           url |-> ""] : f \in {"", "text"}, h \in Hides}
    \cup {[fmt |-> f, masterswitch |-> "v1", hide |-> h, heading |-> "H",
           url |-> "u"] : f \in {"latex", "latex-complete"}, h \in Hides \ {EmptyDict}}
NoArgs == [fmt |-> "", masterswitch |-> "", hide |-> EmptyDict, heading |-> "",
           url |-> ""]

\* The command line's options: --diff, --prune, --ignore_counters, --keep and
\* --format, at their defaults.
NoOptions == [diff |-> FALSE, prune |-> FALSE, ignore |-> FALSE, keep |-> "",
              fmt |-> "str"]

\* No source read yet.
Init ==
    /\ nmlall = <<>>
    /\ nml0 = <<>>
    /\ prev = <<>>
    /\ keep = ""
    /\ last = ""
    /\ ncalls = 0
    /\ nmlsuperset = EmptyDict
    /\ st = ""
    /\ rargs = NoArgs
    /\ pc = ""
    /\ idx = 0
    /\ ignore = EmptyDict
    /\ files = [p \in Paths |-> NoFile]
    /\ fnames = <<>>
    /\ outfnames = <<>>
    /\ nmlfull = <<>>
    /\ st0 = ""
    /\ rargs0 = NoArgs
    /\ args = NoOptions
    /\ exitcode = -1
    /\ tidyarg = None
    /\ tidywidth = None
    /\ disk = <<>>
    /\ tmp = <<>>
    /\ warned = <<>>

\* nmldict, lines 57-58: nmlall[nml] = f90nml.read(nml) for the next source
LoadUpTo(n, d) ==
    /\ UNCHANGED runVars
    /\ last = "" /\ pc = ""
    /\ Len(nmlall) < n
    /\ nmlall' = Append(nmlall, [fn |-> FileName(Len(nmlall) + 1), nml |-> d,
                                 ord |-> DocOrder(d)])
    /\ nml0' = nmlall'
    /\ prev' = nmlall'
    /\ UNCHANGED <<keep, last, ncalls, nmlsuperset, st, rargs, pc, idx, ignore,
                 files, fnames, outfnames>>

Load(d) == LoadUpTo(MaxDocs, d)

\* nmldiff(nmlall, keep=kp), called at most twice in a run, with one keep token
Diff(kp) ==
    /\ UNCHANGED runVars
    /\ ncalls < 2
    /\ last \in {"", "diff"}
    /\ ncalls > 0 => kp = keep
    /\ nmlall' = nmldiff(nmlall, kp)
    /\ prev' = nmlall
    /\ keep' = kp
    /\ last' = "diff"
    /\ ncalls' = ncalls + 1
    /\ UNCHANGED <<nml0, nmlsuperset, st, rargs, pc, idx, ignore,
                 files, fnames, outfnames>>

\* nmlsuperset = superset(nmlall)
Superset ==
    /\ UNCHANGED runVars
    /\ last = ""
    /\ LET s == superset(nmlall)
       IN  /\ nmlall' = s.all
           /\ nmlsuperset' = s.ss
    /\ prev' = nmlall
    /\ last' = "superset"
    /\ UNCHANGED <<nml0, keep, ncalls, st, rargs, pc, idx, ignore,
                 files, fnames, outfnames>>

\* st = strnmldict(nmlall, fmt, masterswitch, hide, heading, url), of a
\* DocumentSet as read or as nmldiff left it
Render(a) ==
    /\ UNCHANGED runVars
    /\ last \in {"", "diff"}
    /\ LET r == strnmldict(nmlall, a.fmt, a.masterswitch, a.hide, a.heading, a.url)
       IN  /\ nmlall' = r.all
           /\ st' = r.st
    /\ rargs' = a
    /\ prev' = nmlall
    /\ last' = "render"
    /\ UNCHANGED <<nml0, keep, ncalls, nmlsuperset, pc, idx, ignore,
                 files, fnames, outfnames>>

\* nmlprune(nmlall, ignore=ig), lines 264-265: a DocumentSet of at most one
\* source is returned as it is, otherwise the loop is entered with idx = 0
PruneCall(ig) ==
    /\ UNCHANGED runVars
    /\ last = "" /\ pc = ""
    /\ ignore' = ig
    /\ idx' = 0
    /\ prev' = nmlall
    /\ IF Len(nmlall) > 1
       THEN pc' = "prune" /\ last' = last
       ELSE pc' = "" /\ last' = "prune"
    /\ UNCHANGED <<nmlall, nml0, keep, ncalls, nmlsuperset, st, rargs,
                 files, fnames, outfnames>>

\* PruneLoop with line 281 as "if idx > len(nmlall)-1": one pass too many.
PruneLoopLate ==
    /\ UNCHANGED runVars
    /\ pc = "prune"
    /\ LET r == pruneStep(nmlall, idx, ignore)
       IN  IF r.raised
           THEN pc' = "raise" /\ UNCHANGED <<nmlall, idx, last,
                 files, fnames, outfnames>>
           ELSE /\ nmlall' = r.all
                /\ idx' = r.idx
                /\ IF r.idx > Len(r.all) - 1
                   THEN pc' = "" /\ last' = "prune"
                   ELSE pc' = "prune" /\ last' = last
    /\ UNCHANGED <<nml0, prev, keep, ncalls, nmlsuperset, st, rargs, ignore,
                 files, fnames, outfnames>>

\* nmlprune, lines 266-282: one pass of the loop
PruneLoop ==
    /\ UNCHANGED runVars
    /\ pc = "prune"
    /\ LET r == pruneStep(nmlall, idx, ignore)
       IN  IF r.raised
           THEN pc' = "raise" /\ UNCHANGED <<nmlall, idx, last,
                 files, fnames, outfnames>>
           ELSE /\ nmlall' = r.all
                /\ idx' = r.idx
                /\ IF r.idx > Len(r.all) - 2
                   THEN pc' = "" /\ last' = "prune"
                   ELSE pc' = "prune" /\ last' = last
    /\ UNCHANGED <<nml0, prev, keep, ncalls, nmlsuperset, st, rargs, ignore,
                 files, fnames, outfnames>>

LoadRender(d) == LoadUpTo(MaxRenderDocs, d)

LoadPrune(d) == LoadUpTo(MaxPruneDocs, d)

Next ==
    \/ \E d \in Documents : Load(d)
    \/ \E kp \in KeepTokens : Diff(kp)
    \/ Superset

Spec == Init /\ [][Next]_vars

\* The calls that must leave nmlall alone.
NextRender ==
    \/ \E d \in Documents : LoadRender(d)
    \/ Superset
    \/ \E a \in RenderArgs : Render(a)

SpecRender == Init /\ [][NextRender]_vars

\* nmlprune over DocumentSets of up to MaxPruneDocs sources.
NextPrune ==
    \/ \E d \in PruneDocuments : LoadPrune(d)
    \/ \E ig \in Ignores : PruneCall(ig)
    \/ PruneLoop

SpecPrune == Init /\ [][NextPrune]_vars

\* nmlprune's loop is sequential code: a pass that can run does run. This is
\* WF_vars(PruneLoop) with ENABLED <<PruneLoop>>_vars written out: a pass is
\* possible exactly when pc = "prune", and every pass changes idx or nmlall.
SpecPruneFair ==
    SpecPrune /\ ([]<>(pc # "prune") \/ []<><<PruneLoop>>_vars)

\* A file is written at path p, before the list of paths is made.
WriteFile(p, c) ==
    /\ UNCHANGED runVars
    /\ last = "" /\ fnames = <<>>
    /\ files[p] = NoFile
    /\ files' = [files EXCEPT ![p] = c]
    /\ UNCHANGED <<nmlall, nml0, prev, keep, last, ncalls, nmlsuperset, st,
                   rargs, pc, idx, ignore, fnames, outfnames>>

\* The caller puts one more path, of a file or not, on the list.
AddPath(p) ==
    /\ UNCHANGED runVars
    /\ last = "" /\ Len(fnames) < MaxPaths
    /\ fnames' = Append(fnames, p)
    /\ UNCHANGED <<nmlall, nml0, prev, keep, last, ncalls, nmlsuperset, st,
                   rargs, pc, idx, ignore, files, outfnames>>

\* outfnames = prunefilelist(fnames)
PruneFileList ==
    /\ UNCHANGED runVars
    /\ last = ""
    /\ outfnames' = prunefilelist(files, fnames)
    /\ last' = "prunefilelist"
    /\ UNCHANGED <<nmlall, nml0, prev, keep, ncalls, nmlsuperset, st,
                   rargs, pc, idx, ignore, files, fnames>>

NextFiles ==
    \/ \E p \in Paths, c \in Contents : WriteFile(p, c)
    \/ \E p \in Paths : AddPath(p)
    \/ PruneFileList

SpecFiles == Init /\ [][NextFiles]_vars

\* The documents and arguments the text formats are tried with: v1 is 0 where
\* it is set; either text format and one in upper case, the aligned one also
\* with hide.
TextDocuments ==
    {d \in Documents :
        \A g \in DOMAIN d : "v1" \in DOMAIN d[g] => d[g]["v1"] = 0}
TextArgs ==
    {[fmt |-> f, masterswitch |-> "", hide |-> h, heading |-> "", url |-> ""] :
        f \in {"text"}, h \in Hides}
    \cup {[fmt |-> f, masterswitch |-> "", hide |-> EmptyDict, heading |-> "",
           url |-> ""] : f \in {"text-tight", "TEXT"}}

\* strnmldict in the text formats, of a DocumentSet diffed by the caller or not.
NextText ==
    \/ \E d \in TextDocuments : LoadRender(d)
    \/ \E kp \in KeepTokens : Diff(kp)
    \/ \E a \in TextArgs : Render(a)

SpecText == Init /\ [][NextText]_vars

\* st = strnmldict(all, ...) once more, of the DocumentSet the last call
\* rendered or of one like it; st0 and rargs0 keep that call's result and
\* arguments
RenderAgain(all, a) ==
    /\ last = "render"
    /\ LET r == strnmldict(all, a.fmt, a.masterswitch, a.hide, a.heading, a.url)
       IN  /\ nmlall' = r.all
           /\ st' = r.st
    /\ st0' = st
    /\ rargs0' = rargs
    /\ rargs' = a
    /\ prev' = all
    /\ last' = "render2"
    /\ UNCHANGED <<nml0, keep, ncalls, nmlsuperset, pc, idx, ignore,
                   files, fnames, outfnames, nmlfull, cliVars, tidyVars>>

\* The format names strnmldict documents, and format strings that are none of
\* them, in any case.
SupportedFormats ==
    {"md", "markdown", "latex", "latex-complete", "text", "text-tight"}
OtherFormats == {"str", "plain", "texts", "latex2"}
PlainArgs ==
    {[fmt |-> "", masterswitch |-> "", hide |-> h, heading |-> "", url |-> ""] :
        h \in Hides}

\* strnmldict with fmt = '' and then, with the other arguments as they were,
\* with a format string that is no format name.
NextFormat ==
    \/ \E d \in TextDocuments : LoadRender(d)
    \/ \E a \in PlainArgs : Render(a)
    \/ \E f \in OtherFormats : RenderAgain(nmlall, [rargs EXCEPT !.fmt = f])

SpecFormat == Init /\ [][NextFormat]_vars

\* The orders in which the elements of S can be inserted.
Perms(S) ==
    {p \in [1..Cardinality(S) -> S] :
        \A i, j \in 1..Cardinality(S) : i # j => p[i] # p[j]}

\* The insertion orders a document of content d can have.
Orders(d) ==
    {[groups |-> gs, vars |-> vs] :
        gs \in Perms(DOMAIN d),
        vs \in {f \in [DOMAIN d -> UNION {Perms(DOMAIN d[g]) : g \in DOMAIN d}] :
                    \A g \in DOMAIN d : f[g] \in Perms(DOMAIN d[g])}}

\* The DocumentSets of the sources and content of D, in the same source order.
Reordered(D) ==
    {[i \in 1..Len(D) |-> [D[i] EXCEPT !.ord = os[i]]] :
        os \in {f \in [1..Len(D) -> UNION {Orders(D[i].nml) : i \in 1..Len(D)}] :
                    \A i \in 1..Len(D) : f[i] \in Orders(D[i].nml)}}

\* The documents and arguments the insertion orders are tried with: &g1 with
\* v1 or with both variables, every value 0; every format, the other
\* arguments at their defaults.
OrderDocuments ==
    {d \in Documents :
        /\ "g1" \in DOMAIN d /\ "v1" \in DOMAIN d["g1"]
        /\ \A g \in DOMAIN d : \A v \in DOMAIN d[g] : d[g][v] = 0}
OrderArgs ==
    {[fmt |-> f, masterswitch |-> "", hide |-> EmptyDict, heading |-> "",
      url |-> ""] : f \in {""} \cup (SupportedFormats \ {"markdown"})}

\* strnmldict of a DocumentSet and then, with the same arguments, of one with
\* the same sources and content whose groups and variables were inserted in
\* another order.
NextOrder ==
    \/ \E d \in OrderDocuments : LoadRender(d)
    \/ \E a \in OrderArgs : Render(a)
    \/ \E all \in Reordered(nmlall) : RenderAgain(all, rargs)

SpecOrder == Init /\ [][NextOrder]_vars

\* The paths and texts of the runs that prune a list of namelist files.
SourcePaths == {"p1", "p2", "p3"}
SourceTexts == {"a", "aa", "c", "b"}

\* The caller puts the path of a file on the list, again or for the first time.
AddSource(p) ==
    /\ last = "" /\ Len(fnames) < MaxSources
    /\ isfile(files, p)
    /\ fnames' = Append(fnames, p)
    /\ UNCHANGED <<nmlall, nml0, prev, keep, last, ncalls, nmlsuperset, st,
                   rargs, pc, idx, ignore, files, outfnames, runVars>>

\* lines 712-713 and 721-722 (and 614-621):
\* nmld = nmldict(prunefilelist(files)); nmlprune(nmld, ignore=ig)
PruneFiltered(ig) ==
    /\ last = "" /\ fnames # <<>>
    /\ outfnames' = prunefilelist(files, fnames)
    /\ nmlall' = nmlprune(nmldict(files, outfnames'), ig).all
    /\ ignore' = ig
    /\ last' = "filtered"
    /\ UNCHANGED <<nml0, prev, keep, ncalls, nmlsuperset, st, rargs, pc, idx,
                   files, fnames, nmlfull, st0, rargs0, cliVars, tidyVars>>

\* nmlprune(nmldict(fnames), ignore): the same list and ignore, parsed and
\* pruned without the pre-filter
PruneUnfiltered ==
    /\ last = "filtered"
    /\ nmlfull' = nmlprune(nmldict(files, fnames), ignore).all
    /\ last' = "both"
    /\ UNCHANGED <<nmlall, nml0, prev, keep, ncalls, nmlsuperset, st, rargs,
                   pc, idx, ignore, files, fnames, outfnames, st0, rargs0,
                   cliVars, tidyVars>>

NextSources ==
    \/ \E p \in SourcePaths, c \in SourceTexts : WriteFile(p, c)
    \/ \E p \in SourcePaths : AddSource(p)
    \/ \E ig \in Ignores : PruneFiltered(ig)
    \/ PruneUnfiltered

SpecSources == Init /\ [][NextSources]_vars

\* The options and files the command line is tried with.
Options ==
    [diff : BOOLEAN, prune : BOOLEAN, ignore : BOOLEAN, keep : KeepTokens,
     fmt : {"str", "text"}]
MainTexts == {"a", "c", "b", "k", "g", "e"}

\* A namelist file is written and its path put on the command line.
NewSource(c) ==
    /\ last = "" /\ Len(fnames) < MaxFiles
    /\ LET p == "p" \o ToString(Len(fnames) + 1)
       IN  /\ files' = [files EXCEPT ![p] = c]
           /\ fnames' = Append(fnames, p)
    /\ UNCHANGED <<nmlall, nml0, prev, keep, last, ncalls, nmlsuperset, st,
                   rargs, pc, idx, ignore, outfnames, runVars>>

\* lines 698-750: the run of the command line with options a, tidy off
Main(a) ==
    /\ last = "" /\ fnames # <<>>
    /\ \E r \in {main(files, fnames, a)} :
           /\ nmlall' = r.all
           /\ prev' = r.loaded
           /\ st' = r.st
           /\ exitcode' = r.exitcode
    /\ args' = a
    /\ last' = "main"
    /\ UNCHANGED <<nml0, keep, ncalls, nmlsuperset, rargs, pc, idx, ignore,
                   files, fnames, outfnames, nmlfull, st0, rargs0, tidyVars>>

NextMain ==
    \/ \E c \in MainTexts : NewSource(c)
    \/ \E a \in Options : Main(a)

SpecMain == Init /\ [][NextMain]_vars

\* The documents tidy_overwrite is tried on: one without namelist data, and
\* Namelists whose longest variable names differ in length; and the colwidth
\* arguments: None (the default) and 17 (line 717).
TidyDocuments ==
    {EmptyDict,
     [g \in {"g1"} |-> [v \in {"v1"} |-> 0]],
     [g \in {"g1"} |-> [v \in {"v1", "v_long"} |-> 0]],
     [g \in {"g1", "g2"} |-> IF g = "g1" THEN EmptyDict ELSE [v \in {"var"} |-> 0]]}
ColWidths == {None, 17}

LoadTidy(d) == LoadUpTo(MaxTidyDocs, d)

\* tidy_overwrite(nmlall, colwidth=cw), up to the loop of line 306
TidyCall(cw) ==
    /\ last = "" /\ pc = "" /\ nmlall # <<>>
    /\ tidyarg' = cw
    /\ tidywidth' = cw
    /\ disk' = [i \in 1..Len(nmlall) |-> [text |-> "orig", colwidth |-> None]]
    /\ tmp' = [i \in 1..Len(nmlall) |-> "none"]
    /\ warned' = <<>>
    /\ idx' = 1
    /\ pc' = "tidy"
    /\ UNCHANGED <<nmlall, nml0, prev, keep, last, ncalls, nmlsuperset, st,
                   rargs, ignore, files, fnames, outfnames, nmlfull, st0,
                   rargs0, cliVars>>

\* lines 306-318: the loop's pass for source idx
TidyLoop(outcome) ==
    /\ pc = "tidy"
    /\ LET nml == nmlall[idx].fn
           r == tidyStep(nmlall[idx].nml, tidywidth, outcome)
       IN  /\ tidywidth' = r.colwidth
           /\ tidyarg' = tidyarg
           /\ disk' = IF r.written
                      THEN [disk EXCEPT ![idx] =
                                [text |-> "tidy", colwidth |-> r.colwidth]]
                      ELSE disk
           /\ tmp' = [tmp EXCEPT ![idx] = r.tmp]
           /\ warned' = IF r.warn THEN Append(warned, <<nml, nml \o "-tmp">>)
                        ELSE warned
           /\ IF r.raised THEN pc' = "raise" /\ UNCHANGED <<idx, last>>
              ELSE IF idx = Len(nmlall)
              THEN pc' = "" /\ last' = "tidy" /\ idx' = idx
              ELSE pc' = "tidy" /\ last' = last /\ idx' = idx + 1
    /\ UNCHANGED <<nmlall, nml0, prev, keep, ncalls, nmlsuperset, st,
                   rargs, ignore, files, fnames, outfnames, nmlfull, st0,
                   rargs0, cliVars>>

NextTidy ==
    \/ \E d \in TidyDocuments : LoadTidy(d)
    \/ \E cw \in ColWidths : TidyCall(cw)
    \/ \E outcome \in Outcomes : TidyLoop(outcome)

SpecTidy == Init /\ [][NextTidy]_vars

\* ------------------------------------------------------------------ claims
\* Source i of DocumentSet D holds variable v in group g.
HasVar(D, i, g, v) == g \in DOMAIN D[i].nml /\ v \in DOMAIN D[i].nml[g]

\* (g, v) is present in every source of D, with equal values.
Common(D, g, v) ==
    /\ \A i \in 1..Len(D) : HasVar(D, i, g, v)
    /\ \A i, j \in 1..Len(D) : D[i].nml[g][v] = D[j].nml[g][v]

\* The first nmldiff of the run has just returned: prev is its input D.
AfterDiff == last = "diff" /\ ncalls = 1

\* C1: nmldiff is idempotent: a second call with the same keep token leaves
\* the result of the first call as it is.
DiffIdempotent == (last = "diff" /\ ncalls = 2) => nmlall = prev

\* C1's case: the first call removed something and left something, and the
\* second call has run.
DiffIdempotentWitness ==
    /\ last = "diff" /\ ncalls = 2
    /\ prev # nml0
    /\ \E i \in 1..Len(nmlall) : \E g \in DOMAIN nmlall[i].nml :
            DOMAIN nmlall[i].nml[g] # {}

\* C2: every (group, variable) present in every document with equal values is
\* absent from every document after nmldiff, unless the variable is the keep
\* token.
DiffComplete ==
    AfterDiff =>
        \A g \in Groups, v \in Vars :
            (Common(prev, g, v) /\ v # keep) =>
                \A i \in 1..Len(nmlall) : ~HasVar(nmlall, i, g, v)

\* C2's case: a common variable was removed from a group that survives.
DiffCompleteWitness ==
    /\ AfterDiff /\ Len(prev) >= 2
    /\ \E g \in Groups, v \in Vars :
        /\ Common(prev, g, v) /\ v # keep
        /\ \E i \in 1..Len(nmlall) : g \in DOMAIN nmlall[i].nml

\* C3: after nmldiff, every (source, group, variable) still present is absent
\* or different in some other source (of the input, and of the result), unless
\* it is the keep token and the group still holds at least two variables in
\* some document.
DiffSound ==
    AfterDiff =>
        \A i \in 1..Len(nmlall) : \A g \in DOMAIN nmlall[i].nml :
            \A v \in DOMAIN nmlall[i].nml[g] :
                \/ /\ \E j \in 1..Len(prev) :
                        /\ j # i
                        /\ \/ ~HasVar(prev, j, g, v)
                           \/ prev[j].nml[g][v] # prev[i].nml[g][v]
                   /\ \E j \in 1..Len(nmlall) :
                        /\ j # i
                        /\ \/ ~HasVar(nmlall, j, g, v)
                           \/ nmlall[j].nml[g][v] # nmlall[i].nml[g][v]
                \/ /\ v = keep
                   /\ \E k \in 1..Len(nmlall) :
                        /\ g \in DOMAIN nmlall[k].nml
                        /\ Cardinality(DOMAIN nmlall[k].nml[g]) >= 2

\* C3's case: three sources, a variable two of them agree on survives because
\* the third differs, and a common keep variable survives beside it.
DiffSoundWitness ==
    /\ AfterDiff /\ Len(prev) = 3 /\ keep = "v1"
    /\ Common(prev, "g1", "v1")
    /\ \A i \in 1..3 : HasVar(nmlall, i, "g1", "v1") /\ HasVar(nmlall, i, "g1", "v2")
    /\ nmlall[1].nml["g1"]["v2"] = nmlall[2].nml["g1"]["v2"]
    /\ nmlall[3].nml["g1"]["v2"] # nmlall[1].nml["g1"]["v2"]

\* The variables of source i's group g that are not common to all of D.
NotCommon(D, i, g) == {v \in DOMAIN D[i].nml[g] : ~Common(D, g, v)}

\* C4: for a group present in every document whose keep variable is common:
\* if no document's copy holds anything else once the other common variables
\* are removed, the group is deleted from every document; otherwise the group
\* stays and every document retains the keep variable.
KeepRule ==
    AfterDiff =>
        \A g \in Groups :
            (GroupInAll(prev, g) /\ Common(prev, g, keep)) =>
                IF \A i \in 1..Len(prev) : NotCommon(prev, i, g) = {}
                THEN \A i \in 1..Len(nmlall) : g \notin DOMAIN nmlall[i].nml
                ELSE \A i \in 1..Len(nmlall) :
                        /\ HasVar(nmlall, i, g, keep)
                        /\ nmlall[i].nml[g][keep] = prev[i].nml[g][keep]

\* C4's case: the keep variable is common in both groups; &g2 holds nothing
\* else and is deleted, &g1 holds a differing variable and stays.
KeepRuleWitness ==
    /\ AfterDiff /\ Len(prev) >= 2 /\ keep = "v1"
    /\ Common(prev, "g1", "v1") /\ Common(prev, "g2", "v1")
    /\ \E i \in 1..Len(prev) : NotCommon(prev, i, "g1") # {}
    /\ \A i \in 1..Len(nmlall) :
            "g2" \notin DOMAIN nmlall[i].nml /\ HasVar(nmlall, i, "g1", "v1")

\* C5: a group missing from at least one document is retained unexamined:
\* every document that held it still holds it, with its original variables
\* and values.
MissingGroupRetained ==
    AfterDiff =>
        \A g \in Groups :
            (\E j \in 1..Len(prev) : g \notin DOMAIN prev[j].nml) =>
                \A i \in 1..Len(prev) :
                    g \in DOMAIN prev[i].nml =>
                        /\ g \in DOMAIN nmlall[i].nml
                        /\ nmlall[i].nml[g] = prev[i].nml[g]

\* C5's case: &g1 is missing from one source, two other sources agree on one
\* of its variables, and the call removed something elsewhere.
MissingGroupRetainedWitness ==
    /\ AfterDiff /\ Len(prev) = 3
    /\ \E j \in 1..3 : "g1" \notin DOMAIN prev[j].nml
    /\ \E i, k \in 1..3 : \E v \in Vars :
        /\ i # k /\ HasVar(prev, i, "g1", v) /\ HasVar(prev, k, "g1", v)
        /\ prev[i].nml["g1"][v] = prev[k].nml["g1"][v]
        /\ HasVar(nmlall, i, "g1", v) /\ HasVar(nmlall, k, "g1", v)
    /\ nmlall # prev

\* The last source of D that defines (g, v).
LastDef(D, g, v) ==
    CHOOSE i \in 1..Len(D) :
        /\ HasVar(D, i, g, v)
        /\ \A j \in (i + 1)..Len(D) : ~HasVar(D, j, g, v)

\* C6: superset(D) holds exactly the groups of any document and, in each,
\* exactly the variables of that group in any document, each with the value
\* of the last document that defines it.
SupersetExact ==
    last = "superset" =>
        /\ DOMAIN nmlsuperset = UNION {DOMAIN prev[i].nml : i \in 1..Len(prev)}
        /\ \A g \in DOMAIN nmlsuperset :
            /\ DOMAIN nmlsuperset[g] =
                    {v \in Vars : \E i \in 1..Len(prev) : HasVar(prev, i, g, v)}
            /\ \A v \in DOMAIN nmlsuperset[g] :
                    nmlsuperset[g][v] = prev[LastDef(prev, g, v)].nml[g][v]

\* C6's case: three sources; a variable the first two give different values
\* and the third lacks, and another variable only the first defines.
SupersetExactWitness ==
    /\ last = "superset" /\ Len(prev) = 3
    /\ HasVar(prev, 1, "g1", "v1") /\ HasVar(prev, 2, "g1", "v1")
    /\ prev[1].nml["g1"]["v1"] # prev[2].nml["g1"]["v1"]
    /\ "g1" \in DOMAIN prev[3].nml /\ ~HasVar(prev, 3, "g1", "v1")
    /\ HasVar(prev, 1, "g1", "v2") /\ ~HasVar(prev, 2, "g1", "v2")
    /\ ~HasVar(prev, 3, "g1", "v2")

\* C7: neither superset nor strnmldict, in any format, modifies the
\* DocumentSet passed in: sources, groups, variables and values are as before.
NoMutation == last \in {"superset", "render"} => nmlall = prev

\* C7's case: strnmldict has rendered two sources that share a group, agree
\* on one of its variables and differ on the other, so that the superset's
\* update and the diff of the copy both have something to change.
NoMutationWitness ==
    /\ last = "render" /\ Len(prev) = 2 /\ st # ""
    /\ Common(prev, "g1", "v1")
    /\ HasVar(prev, 1, "g1", "v2") /\ ~HasVar(prev, 2, "g1", "v2")

\* nmlprune has returned: prev is its input D, nmlall what is left of it.
AfterPrune == last = "prune" /\ pc = ""

\* A document without the variables ignore lists.
Stripped(doc, ig) ==
    [g \in DOMAIN doc |->
        IF g \in DOMAIN ig
        THEN [v \in (DOMAIN doc[g]) \ ig[g] |-> doc[g][v]]
        ELSE doc[g]]

\* Sources i and j of D are equal once the ignored variables are deleted
\* from both.
Equiv(D, i, j) == Stripped(D[i].nml, ignore) = Stripped(D[j].nml, ignore)

\* Source i of the input is among the sources nmlprune left.
Survives(i) == \E k \in 1..Len(nmlall) : nmlall[k].fn = prev[i].fn

\* C8 as stated: of adjacent diff-equivalent documents exactly one, the later,
\* is removed; two equal documents that are not adjacent and have a differing
\* document between them are both retained.
PruneAdjacency ==
    AfterPrune =>
        /\ \A i \in 1..(Len(prev) - 1) :
                Equiv(prev, i, i + 1) => (Survives(i) /\ ~Survives(i + 1))
        /\ \A i, k \in 1..Len(prev) :
                (/\ i + 1 < k
                 /\ Equiv(prev, i, k)
                 /\ \E m \in (i + 1)..(k - 1) : ~Equiv(prev, m, i))
                    => (Survives(i) /\ Survives(k))

\* C8, amended: of adjacent diff-equivalent documents the later is removed, and
\* the earlier is removed too exactly when it is diff-equivalent to its own
\* predecessor; a document that differs from its immediate predecessor is
\* retained even when it equals an earlier document.
PruneAdjacencyAmended ==
    AfterPrune =>
        /\ \A i \in 1..(Len(prev) - 1) :
                Equiv(prev, i, i + 1) =>
                    /\ ~Survives(i + 1)
                    /\ Survives(i) <=> (i = 1 \/ ~Equiv(prev, i - 1, i))
        /\ \A i, k \in 1..Len(prev) :
                (i + 1 < k /\ Equiv(prev, i, k) /\ ~Equiv(prev, k - 1, k))
                    => Survives(k)

\* C8's case: three sources; the first two are equal only once the ignored
\* variable is deleted and the second is removed; the third is unlike the
\* second and stays.
PruneAdjacencyAmendedWitness ==
    /\ AfterPrune /\ Len(prev) = 3 /\ ignore # EmptyDict
    /\ Equiv(prev, 1, 2) /\ prev[1].nml # prev[2].nml
    /\ ~Equiv(prev, 2, 3)
    /\ nmlall = <<prev[1], prev[3]>>

\* The sources of D that are first or differ from the source before them.
RECURSIVE KeptFrom(_, _)
KeptFrom(D, i) ==
    IF i > Len(D) THEN <<>>
    ELSE (IF i = 1 \/ ~Equiv(D, i - 1, i) THEN <<D[i]>> ELSE <<>>)
         \o KeptFrom(D, i + 1)

Existing == {i \in 1..Len(fnames) : isfile(files, fnames[i])}

\* The positions prunefilelist is to keep: of a file that is the first file
\* of the list, or whose content is not that of the file before it.
KeptPositions ==
    {i \in Existing :
        LET before == {j \in Existing : j < i}
        IN  \/ before = {}
            \/ files[fnames[i]] #
                    files[fnames[CHOOSE j \in before : \A k \in before : k <= j]]}

\* The paths at the given positions of fnames, in the order of the list.
RECURSIVE PathsAt(_, _)
PathsAt(pos, i) ==
    IF i > Len(fnames) THEN <<>>
    ELSE (IF i \in pos THEN <<fnames[i]>> ELSE <<>>) \o PathsAt(pos, i + 1)

\* The last position before i that prunefilelist is to keep.
LastKeptBefore(i) ==
    CHOOSE j \in KeptPositions : j < i /\ \A k \in KeptPositions : k < i => k <= j

\* C10: prunefilelist returns, in input order, the paths of files that are
\* the first file of the list or not byte-identical to the previous file of
\* the list, which are the files that are first or not byte-identical to the
\* most recently kept one; every path returned is a file and differs in
\* content from the path returned before it.
PruneFileListResult ==
    last = "prunefilelist" =>
        /\ outfnames = PathsAt(KeptPositions, 1)
        /\ \A i \in Existing :
                (\E j \in Existing : j < i) =>
                    (i \in KeptPositions <=>
                        files[fnames[i]] # files[fnames[LastKeptBefore(i)]])
        /\ \A k \in 1..Len(outfnames) : isfile(files, outfnames[k])
        /\ \A k \in 1..(Len(outfnames) - 1) :
                files[outfnames[k]] # files[outfnames[k + 1]]

\* C10's case: a list of a missing path and three files, the middle one
\* unlike the other two, which are byte-identical.
PruneFileListResultWitness ==
    /\ last = "prunefilelist" /\ Len(fnames) = 4
    /\ ~isfile(files, fnames[1])
    /\ \A i \in 2..4 : isfile(files, fnames[i])
    /\ files[fnames[2]] = files[fnames[4]]
    /\ files[fnames[2]] # files[fnames[3]]
    /\ fnames[2] # fnames[4]
    /\ outfnames = Tail(fnames)

\* The source identifiers of a DocumentSet.
Sources(D) == {D[i].fn : i \in 1..Len(D)}

\* C11: the file pre-filter is an optimisation only: for a list of existing
\* paths, repeated paths allowed, the sources surviving
\* nmlprune(nmldict(prunefilelist(paths))) are those surviving
\* nmlprune(nmldict(paths)).
PreFilterSameSurvivors == last = "both" => Sources(nmlall) = Sources(nmlfull)

\* The positions of the newlines of a text.
Newlines(str) == {i \in 1..Len(str) : SubSeq(str, i, i) = "\n"}

\* The lines of a text that ends with a newline, each without its newline.
Lines(str) ==
    LET nl == Newlines(str)
        pos(k) == CHOOSE i \in nl : Cardinality({j \in nl : j < i}) = k - 1
    IN  [k \in 1..Cardinality(nl) |->
            SubSeq(str, IF k = 1 THEN 1 ELSE pos(k - 1) + 1, pos(k) - 1)]

\* A line of the text formats: marker, '&', group, two spaces, variable, ...
\* (group and variable names are two characters long, so that the columns
\* of the aligned and of the tight format coincide).
LineMarker(line) == SubSeq(line, 1, 2)
LineGroup(line) == SubSeq(line, 4, 5)
LineVar(line) == SubSeq(line, 8, 9)

\* strnmldict has returned in a text format: prev is the DocumentSet rendered.
AfterText == last = "render" /\ lower(rargs.fmt) \in {"text", "text-tight"}

\* A second strnmldict call has returned in a text format.
AfterTextAgain == last = "render2" /\ lower(rargs.fmt) \in {"text", "text-tight"}

\* C12: in the text formats every line of a (group, variable) starts with
\* '* ' if the pair is not present in every source with equal values and with
\* two spaces if it is, whether the caller diffed the DocumentSet or not; every
\* pair of some source that is not hidden has one line per source.
TextMarker ==
    AfterText =>
        LET ls == Lines(st)
        IN  /\ \A k \in 1..Len(ls) :
                    /\ SubSeq(ls[k], 3, 3) = "&"
                    /\ LineMarker(ls[k]) =
                            IF Common(prev, LineGroup(ls[k]), LineVar(ls[k]))
                            THEN "  " ELSE "* "
            /\ \A g \in Groups, v \in Vars :
                    Cardinality({k \in 1..Len(ls) :
                                    LineGroup(ls[k]) = g /\ LineVar(ls[k]) = v})
                    = IF (\E i \in 1..Len(prev) : HasVar(prev, i, g, v))
                         /\ ~Hidden(rargs.hide, g, v)
                      THEN Len(prev) ELSE 0

\* C12's case: the caller diffed two sources keeping v1, which is common; the
\* text shows v1 unmarked and a variable that differs marked.
TextMarkerWitness ==
    /\ AfterText /\ ncalls = 1 /\ keep = "v1" /\ Len(prev) = 2
    /\ Common(prev, "g1", "v1")
    /\ \E k \in 1..Len(Lines(st)) : LineMarker(Lines(st)[k]) = "  "
    /\ \E k \in 1..Len(Lines(st)) : LineMarker(Lines(st)[k]) = "* "

\* C13: strnmldict with a format string that is none of the supported names
\* (compared without regard to case) returns what it returns for fmt = ''.
FormatFallback ==
    (/\ last = "render2"
     /\ rargs0.fmt = ""
     /\ lower(rargs.fmt) \notin SupportedFormats
     /\ rargs = [rargs0 EXCEPT !.fmt = rargs.fmt])
        => st = st0

\* DocumentSets D and E have the same sources in the same order with the
\* same groups, variables and values.
SameContent(D, E) ==
    /\ Len(D) = Len(E)
    /\ \A i \in 1..Len(D) : D[i].fn = E[i].fn /\ D[i].nml = E[i].nml

\* (g1, v1) comes before (g2, v2): by group name, then by variable name.
PairLess(g1, v1, g2, v2) == StrLess(g1, g2) \/ (g1 = g2 /\ StrLess(v1, v2))

\* The source a line of the text formats ends with.
LineSource(line) == SubSeq(line, Len(line) - 1, Len(line))

\* C14: two DocumentSets with the same sources in the same order and the same
\* content, whose groups and variables were inserted in different orders,
\* render to the same string in every format; the lines of the text formats
\* are ordered by group name, then variable name, then source order.
RenderOrder ==
    /\ (last = "render2" /\ rargs = rargs0 /\ SameContent(prev, nml0))
            => st = st0
    /\ (last = "render2" /\ AfterTextAgain) =>
            LET ls == Lines(st)
            IN  \A k \in 1..(Len(ls) - 1) :
                    IF LineGroup(ls[k]) = LineGroup(ls[k + 1])
                       /\ LineVar(ls[k]) = LineVar(ls[k + 1])
                    THEN \E i \in 1..(Len(prev) - 1) :
                            /\ LineSource(ls[k]) = prev[i].fn
                            /\ LineSource(ls[k + 1]) = prev[i + 1].fn
                    ELSE /\ PairLess(LineGroup(ls[k]), LineVar(ls[k]),
                                     LineGroup(ls[k + 1]), LineVar(ls[k + 1]))
                         /\ LineSource(ls[k]) = prev[Len(prev)].fn
                         /\ LineSource(ls[k + 1]) = prev[1].fn

\* C14's case: two sources rendered a second time, the first of them with
\* its groups and its variables inserted in reverse order.
RenderOrderWitness ==
    /\ last = "render2" /\ rargs = rargs0 /\ SameContent(prev, nml0)
    /\ Len(prev) = 2 /\ st # ""
    /\ prev[1].ord.groups = <<"g2", "g1">>
    /\ nml0[1].ord.groups = <<"g1", "g2">>
    /\ prev[1].ord.vars["g1"] = <<"v2", "v1">>
    /\ nml0[1].ord.vars["g1"] = <<"v1", "v2">>

\* The document nmldict makes of the file at path p.
DocOf(p) == FirstInstance(f90read(files[p]))

\* The files on the command line all parse to the same document.
NoDifferences ==
    \A i, j \in 1..Len(fnames) : DocOf(fnames[i]) = DocOf(fnames[j])

\* The file at position i of the command line sets variable v of group g.
SourceHas(i, g, v) ==
    g \in DOMAIN DocOf(fnames[i]) /\ v \in DOMAIN DocOf(fnames[i])[g]

\* Every source sets (g, v), to one value.
SourcesAgree(g, v) ==
    /\ \A i \in 1..Len(fnames) : SourceHas(i, g, v)
    /\ \A i, j \in 1..Len(fnames) :
            DocOf(fnames[i])[g][v] = DocOf(fnames[j])[g][v]

\* Some source sets (g, v), and the sources do not agree on it.
Differs(g, v) ==
    (\E i \in 1..Len(fnames) : SourceHas(i, g, v)) /\ ~SourcesAgree(g, v)

\* The command line has run in diff mode.
AfterDiffRun == last = "main" /\ args.diff

Tidied(i) == (pc = "tidy" /\ i < idx) \/ last = "tidy"

\* The warning for source i was issued.
Warned(i) ==
    \E k \in 1..Len(warned) :
        warned[k] = <<nmlall[i].fn, nmlall[i].fn \o "-tmp">>

\* C16: tidy_overwrite treats every source on its own: after a source's pass
\* its file holds either the text it held, in which case (the Namelist not
\* being empty) f90nml.write or os.replace failed and a warning naming the
\* source and its '-tmp' path was issued, or the whole rewritten Namelist, with
\* no warning and no '-tmp' file; the file of an empty Document keeps its text
\* and gets no '-tmp' file; and the call returns with every source passed.
TidyPerSource ==
    /\ pc # "raise"
    /\ (pc = "tidy" \/ last = "tidy") =>
            \A i \in 1..Len(nmlall) :
                /\ disk[i].text \in {"orig", "tidy"}
                /\ ~Tidied(i) => (disk[i].text = "orig" /\ tmp[i] = "none")
                /\ (Tidied(i) /\ DOMAIN nmlall[i].nml = {}) =>
                        (disk[i].text = "orig" /\ tmp[i] = "none" /\ ~Warned(i))
                /\ (Tidied(i) /\ DOMAIN nmlall[i].nml # {}) =>
                        \/ disk[i].text = "tidy" /\ tmp[i] = "none" /\ ~Warned(i)
                        \/ disk[i].text = "orig" /\ tmp[i] # "none" /\ Warned(i)
    /\ last = "tidy" => Len(warned) <= Len(nmlall)

\* C16's case: of three sources the first could not be written, the second
\* holds no namelist data and the third was rewritten.
TidyPerSourceWitness ==
    /\ last = "tidy" /\ Len(nmlall) = 3
    /\ disk[1].text = "orig" /\ tmp[1] = "part" /\ Warned(1)
    /\ DOMAIN nmlall[2].nml = {} /\ disk[2].text = "orig"
    /\ disk[3].text = "tidy"

\* In nmlprune's loop the cursor is on a pair of two live documents.
PruneCursor ==
    pc = "prune" =>
        /\ 0 <= idx /\ idx <= Len(nmlall) - 2
        /\ Len(PrunePair(nmlall, idx)) = 2

\* A pass of the loop removes one document and leaves the cursor, or leaves
\* the documents and moves the cursor on by one.
PrunePass ==
    pc = "prune" =>
        /\ pc' \in {"prune", ""}
        /\ \/ Len(nmlall') = Len(nmlall) - 1 /\ idx' = idx
           \/ nmlall' = nmlall /\ idx' = idx + 1

\* C17: nmlprune terminates on every DocumentSet and leaves one of at most
\* one source as it is; in every pass of its loop 0 <= idx <= len(nmlall)-2,
\* so that the pair compared has two live documents and deleting its second
\* key does not fail; every pass either removes one document or moves idx on
\* by one.
PruneTerminates ==
    /\ [](PruneCursor /\ pc # "raise")
    /\ []((AfterPrune /\ Len(prev) <= 1) => nmlall = prev)
    /\ [][PrunePass]_vars
    /\ (pc = "prune") ~> (pc = "")

\* C17's case: of four sources the second and the fourth were removed, so
\* that the loop has removed, moved on, and removed again before it ended.
PruneTerminatesWitness ==
    /\ AfterPrune /\ Len(prev) = 4
    /\ nmlall = <<prev[1], prev[3]>>

\* C18: tidy_overwrite with colwidth=None writes every source that is not
\* empty at the length of the longest variable name of that source's own
\* Namelist.
TidyWidthPerFile ==
    (last = "tidy" /\ tidyarg = None) =>
        \A i \in 1..Len(nmlall) :
            disk[i].text = "tidy" => disk[i].colwidth = AutoWidth(nmlall[i].nml)

====
